---- MODULE Spec2Model ----
(***************************************************************************)
(* Job queue, dispatch worker and device controller of axidraw-service.    *)
(*                                                                         *)
(* The service is one asyncio event loop.  Every coroutine (the worker     *)
(* loop, each HTTP request handler) runs without interruption between two  *)
(* await points, so each action below is one such segment: the completion  *)
(* of the awaited operation (a database round trip, a subprocess wait, a   *)
(* sleep) followed by the synchronous code up to the next await.  A pc     *)
(* names the await a coroutine is suspended at.                            *)
(***************************************************************************)
EXTENDS Integers, Sequences, FiniteSets, TLC

\* ------------------------------------------------------------------ bounds
\* Number of job ids (uuid4 values) ever handed out.
MaxJobs == 2
\* Largest value datetime.utcnow() takes; the clock saturates there.
MaxTime == 2

\* settings.max_queue_size, configured below the number of jobs so that the
\* queue can be full (the shipped default is 100).
max_queue_size == 1

\* The HTTP request handlers that can be in flight at once.
Clients == {"c1", "c2"}

JobIds == 1..MaxJobs

\* ------------------------------------------------------------- job records
QUEUED    == "queued"
RUNNING   == "running"
PAUSED    == "paused"
COMPLETED == "completed"
FAILED    == "failed"
CANCELLED == "cancelled"

Terminal == {COMPLETED, FAILED, CANCELLED}

\* Python None, for a timestamp / for a text column / for a job reference.
NoTime == 0
NoText == "null"
NoJob  == 0

\* The text the worker records for a failed plot.
PlottingFailed == "Plotting failed"

\* A column an UPDATE leaves alone (the ORM writes only changed attributes).
KeepS == "keep"
KeepN == -1

\* A row of table jobs (filename, filepath and parameters never change and
\* are not read by the operations modelled; the input file is in `files`).
Job(t) ==
  [status |-> QUEUED, progress |-> 0, created_at |-> t, started_at |-> NoTime,
   completed_at |-> NoTime, error |-> NoText]

\* "No object loaded".
NoRec ==
  [status |-> "none", progress |-> 0, created_at |-> NoTime, started_at |-> NoTime,
   completed_at |-> NoTime, error |-> NoText]

\* "No UPDATE pending".
NoUpd ==
  [status |-> KeepS, progress |-> KeepN, error |-> KeepS,
   started_at |-> KeepN, completed_at |-> KeepN]

VARIABLES
  store,    \* table jobs: job id -> row, for the rows that exist
  files,    \* ids of the jobs whose uploaded input file exists
  nextId,   \* number of job ids handed out so far
  clock,    \* the last value datetime.utcnow() returned
  plotter,  \* the AxiDrawController singleton
  proc,     \* the axicli subprocess of each job, as the operating system has it
  worker,   \* the JobWorker singleton and the position of its _work_loop task
  req,      \* the HTTP request each client has in flight
  calls     \* the update_job_status round trip in progress on the manager alone

vars == <<store, files, nextId, clock, plotter, proc, worker, req, calls>>

\* ------------------------------------------------------------------- clock
\* datetime.utcnow(): time may or may not have advanced since the last call.
Nows == {t \in {clock, clock + 1} : t <= MaxTime}

\* ----------------------------------------------------------- queue manager
QueuedIds(s) == {j \in DOMAIN s : s[j].status = QUEUED}

\* The query with the order reversed (ORDER BY created_at DESC).
OrderByCreatedDesc(s) ==
  {q \in [1..Cardinality(QueuedIds(s)) -> QueuedIds(s)] :
     /\ \A i, k \in DOMAIN q : i /= k => q[i] /= q[k]
     /\ \A i, k \in DOMAIN q : i < k => s[q[i]].created_at >= s[q[k]].created_at}

\* ORDER BY created_at ASC over the queued rows: every order the database may
\* return them in (rows with equal created_at come in any order).
OrderByCreatedAsc(s) ==
  {q \in [1..Cardinality(QueuedIds(s)) -> QueuedIds(s)] :
     /\ \A i, k \in DOMAIN q : i /= k => q[i] /= q[k]
     /\ \A i, k \in DOMAIN q : i < k => s[q[i]].created_at <= s[q[k]].created_at}

\* The query without its WHERE status = 'queued'.
get_next_job_any(s) == IF DOMAIN s = {} THEN {NoJob} ELSE DOMAIN s

\* get_next_job: the rows LIMIT 1 may return; NoJob for scalar_one_or_none() = None.
get_next_job(s) ==
  IF QueuedIds(s) = {} THEN {NoJob}
  ELSE {q[1] : q \in OrderByCreatedAsc(s)}

\* The count with a strict comparison (created_at < job.created_at).
get_queue_position_strict(s, job) ==
  IF job.status = "none" \/ job.status /= QUEUED THEN 0
  ELSE Cardinality({k \in QueuedIds(s) : s[k].created_at < job.created_at})

\* get_queue_position for a job object `job` (as loaded by get_job; NoRec if
\* get_job returned None), counted over the table s.
get_queue_position(s, job) ==
  IF job.status = "none" \/ job.status /= QUEUED THEN 0
  ELSE Cardinality({k \in QueuedIds(s) : s[k].created_at <= job.created_at})

get_queue_size(s) == Cardinality(QueuedIds(s))

\* get_job: the row, or NoRec for None.
get_job(s, id) == IF id \in DOMAIN s THEN s[id] ELSE NoRec

\* The assignments with COMPLETED missing from the list of terminal statuses
\* that stamp completed_at.
update_assign_unstamped(job, status, progress, error, t) ==
  LET started ==
        IF status = RUNNING /\ job.started_at = NoTime THEN t ELSE job.started_at
      completed ==
        IF status \in {FAILED, CANCELLED} THEN t ELSE job.completed_at
  IN [status       |-> IF status /= job.status THEN status ELSE KeepS,
      progress     |-> IF progress /= KeepN /\ progress /= job.progress
                       THEN progress ELSE KeepN,
      error        |-> IF error /= KeepS /\ error /= job.error THEN error ELSE KeepS,
      started_at   |-> IF started /= job.started_at THEN started ELSE KeepN,
      completed_at |-> IF completed /= job.completed_at THEN completed ELSE KeepN]

\* update_job_status, lines 103-115: the attribute assignments made on the
\* loaded object `job` at time t, as the columns the flush will write.
\* progress = KeepN and error = KeepS stand for the arguments left None.
update_assign(job, status, progress, error, t) ==
  LET started ==
        IF status = RUNNING /\ job.started_at = NoTime THEN t ELSE job.started_at
      completed ==
        IF ~(status = RUNNING /\ job.started_at = NoTime) /\ status \in Terminal
        THEN t ELSE job.completed_at
  IN [status       |-> IF status /= job.status THEN status ELSE KeepS,
      progress     |-> IF progress /= KeepN /\ progress /= job.progress
                       THEN progress ELSE KeepN,
      error        |-> IF error /= KeepS /\ error /= job.error THEN error ELSE KeepS,
      started_at   |-> IF started /= job.started_at THEN started ELSE KeepN,
      completed_at |-> IF completed /= job.completed_at THEN completed ELSE KeepN]

\* The row after the UPDATE u.
Apply(row, u) ==
  [row EXCEPT
     !.status       = IF u.status /= KeepS THEN u.status ELSE @,
     !.progress     = IF u.progress /= KeepN THEN u.progress ELSE @,
     !.error        = IF u.error /= KeepS THEN u.error ELSE @,
     !.started_at   = IF u.started_at /= KeepN THEN u.started_at ELSE @,
     !.completed_at = IF u.completed_at /= KeepN THEN u.completed_at ELSE @]

\* session.commit() of update_job_status: the table afterwards.  An UPDATE
\* that matches no row raises (StaleRow) and changes nothing.
StaleRow(s, id, u) == u /= NoUpd /\ id \notin DOMAIN s

update_commit(s, id, u) ==
  IF id \in DOMAIN s THEN [s EXCEPT ![id] = Apply(s[id], u)] ELSE s

\* The table without row id (session.delete + commit).
delete_row(s, id) == [j \in DOMAIN s \ {id} |-> s[j]]

\* ------------------------------------------------------- device controller
IDLE  == "idle"
BUSY  == "busy"
ERROR == "error"

\* Process.returncode is not None.
Exited(st) == st \in {"exit0", "exit1"}

\* A terminate() that sends SIGKILL.
terminate_by_kill(st) == "killed"

\* Process.terminate(): SIGTERM reaches a running subprocess; one that has
\* been sent SIGKILL already is not changed by it.
terminate(st) == IF st = "alive" THEN "terminated" ELSE st

\* Process.kill(): SIGKILL.
kill(st) == "killed"

\* plot_svg without its finally block.
plot_svg_no_finally(p) == p

\* The `finally` block of plot_svg.
plot_svg_finally(p) ==
  [p EXCEPT !.state = IDLE, !.current_job_id = NoJob, !.current_process = NoJob]

\* The controller when plot_svg leaves with `outcome`: every path but the
\* successful one sets ERROR before returning False; then the finally block.
plot_svg_exit(p, outcome) ==
  plot_svg_finally(IF outcome = "success" THEN p ELSE [p EXCEPT !.state = ERROR])

\* The test without `returncode is not None`.
cancel_has_recorded(p, pr) == p.current_process /= NoJob

\* cancel(), line 205: there is a recorded subprocess and it has not exited.
cancel_has_process(p, pr) ==
  p.current_process /= NoJob /\ ~Exited(pr[p.current_process])

\* A pause() that suspends the plot of a busy controller.
pause_implemented(p) ==
  [ok |-> p.state = BUSY,
   plotter |-> IF p.state = BUSY THEN [p EXCEPT !.state = PAUSED] ELSE p]

\* pause() and resume(): the value returned and the controller afterwards.
pause(p) == [ok |-> FALSE, plotter |-> p]
resume(p) == [ok |-> FALSE, plotter |-> p]

\* plot_svg entered whatever the state.
plot_svg_accepts_always(p) == TRUE

\* plot_svg, line 108: the call goes on only for an idle controller, and
\* raises RuntimeError otherwise.
plot_svg_accepts(p) == p.state = IDLE

\* The reset without `self.current_job_id = None`.
cancel_reset_keeps_job(p) == [p EXCEPT !.state = IDLE, !.current_process = NoJob]

\* cancel(), lines 226-228.
cancel_reset(p) ==
  [p EXCEPT !.state = IDLE, !.current_job_id = NoJob, !.current_process = NoJob]

\* ------------------------------------------------------------- the worker
\* The awaits inside plotter.plot_svg.
InPlotSvg == {"spawn", "communicate", "kill_wait", "cb_get", "cb_commit"}

\* `success = await plotter.plot_svg(...)`: the bool returned for an outcome.
Success(outcome) == outcome = "success"

\* The final call writing no terminal status for a failed plot.
final_status_stuck(success) == IF success THEN COMPLETED ELSE RUNNING

\* The status and arguments of the worker's final update_job_status call.
final_status(success) == IF success THEN COMPLETED ELSE FAILED
final_progress(success) == IF success THEN 100 ELSE KeepN
final_error(success) == IF success THEN KeepS ELSE PlottingFailed

\* Top of `while self.running:` with the controller as p: where the worker
\* suspends next.  next_job and success are assigned again before the loop
\* reads them, so the model forgets them here.
LoopTop(w, p) ==
  [w EXCEPT !.pc = IF p.state /= IDLE THEN "sleep" ELSE "get_next", !.upd = NoUpd,
            !.next_job = NoJob, !.loaded = NoRec, !.outcome = "none"]

\* A loop that an exception ends.
LoopExcept_break(w) ==
  [w EXCEPT !.pc = "ended", !.upd = NoUpd, !.next_job = NoJob, !.loaded = NoRec,
            !.outcome = "none"]

\* `except Exception:` of the loop: log, sleep.
LoopExcept(w) ==
  [w EXCEPT !.pc = "sleep", !.upd = NoUpd, !.next_job = NoJob, !.loaded = NoRec,
            !.outcome = "none"]

\* A worker that goes back to the top of its loop after plot_svg, with no
\* final update.
AfterPlot_no_update(w, outcome) ==
  [w EXCEPT !.pc = "get_next", !.upd = NoUpd, !.next_job = NoJob, !.loaded = NoRec,
            !.outcome = "none"]

\* plot_svg has left with `outcome`; the worker goes on to its final update.
AfterPlot(w, outcome) == [w EXCEPT !.pc = "final_get", !.outcome = outcome, !.upd = NoUpd]

\* The call of plot_svg up to its first await (lines 108-140).
WorkerCallPlot(w) ==
  IF ~plot_svg_accepts(plotter)
  THEN /\ worker' = LoopExcept(w)
       /\ UNCHANGED plotter
  ELSE /\ worker' = [w EXCEPT !.pc = "spawn", !.upd = NoUpd, !.outcome = "none"]
       /\ plotter' = [plotter EXCEPT !.state = BUSY, !.current_job_id = w.next_job]

\* A request's cancel() waits for a subprocess that has exited: the exit has
\* made its task ready, and the event loop runs a ready task before it
\* delivers the answer to a database call that was made after the exit.  So
\* the first database answer the worker gets after its own wait for the same
\* subprocess comes after the rest of that cancel().
CancelReady ==
  \E c \in Clients :
    /\ req[c].pc \in {"term_wait", "kill_wait"}
    /\ Exited(proc[req[c].wproc])

\* JobWorker.start, called once by the application's lifespan.
WorkerStart ==
  /\ worker.pc = "off"
  /\ worker' = LoopTop([worker EXCEPT !.running = TRUE], plotter)
  /\ UNCHANGED <<store, files, nextId, clock, plotter, proc, req, calls>>

\* asyncio.sleep(5) is over.
WorkerSleep ==
  /\ worker.pc = "sleep"
  /\ worker' = LoopTop(worker, plotter)
  /\ UNCHANGED <<store, files, nextId, clock, plotter, proc, req, calls>>

\* get_next_job has answered.
WorkerGetNext ==
  /\ worker.pc = "get_next"
  /\ \E j \in get_next_job(store) :
       worker' = IF j = NoJob
                 THEN [worker EXCEPT !.pc = "sleep", !.next_job = NoJob, !.loaded = NoRec]
                 ELSE [worker EXCEPT !.pc = "mark_get", !.next_job = j,
                                     !.loaded = store[j]]
  /\ UNCHANGED <<store, files, nextId, clock, plotter, proc, req, calls>>

\* update_job_status(RUNNING, progress=0): get_job has answered.  The session
\* is the one get_next_job used, so the attributes are those loaded there.
WorkerMarkGet ==
  /\ worker.pc = "mark_get"
  /\ IF worker.next_job \notin DOMAIN store
     THEN /\ WorkerCallPlot(worker)
          /\ UNCHANGED clock
     ELSE /\ \E t \in Nows :
               /\ clock' = t
               /\ worker' = [worker EXCEPT !.pc = "mark_commit",
                     !.upd = update_assign(worker.loaded, RUNNING, 0, KeepS, t)]
          /\ UNCHANGED plotter
  /\ UNCHANGED <<store, files, nextId, proc, req, calls>>

\* update_job_status(RUNNING): the commit has answered; then plot_svg is called.
WorkerMarkCommit ==
  /\ worker.pc = "mark_commit"
  /\ IF StaleRow(store, worker.next_job, worker.upd)
     THEN /\ worker' = LoopExcept(worker)
          /\ UNCHANGED <<store, plotter>>
     ELSE /\ store' = update_commit(store, worker.next_job, worker.upd)
          /\ WorkerCallPlot(worker)
  /\ UNCHANGED <<files, nextId, clock, proc, req, calls>>

\* create_subprocess_exec has answered: the subprocess runs.
WorkerSpawn ==
  /\ worker.pc = "spawn"
  /\ proc' = [proc EXCEPT ![worker.next_job] = "alive"]
  /\ plotter' = [plotter EXCEPT !.current_process = worker.next_job]
  /\ worker' = [worker EXCEPT !.pc = "communicate"]
  /\ UNCHANGED <<store, files, nextId, clock, req, calls>>

\* create_subprocess_exec has raised (tool missing, permissions).
WorkerSpawnError ==
  /\ worker.pc = "spawn"
  /\ plotter' = plot_svg_exit(plotter, "exception")
  /\ worker' = AfterPlot(worker, "exception")
  /\ UNCHANGED <<store, files, nextId, clock, proc, req, calls>>

\* communicate() has answered: the subprocess has exited.
WorkerCommunicate ==
  /\ worker.pc = "communicate"
  /\ Exited(proc[worker.next_job])
  /\ IF plotter.current_process = NoJob
     THEN \* self._current_process.returncode on None: AttributeError
          /\ plotter' = plot_svg_exit(plotter, "exception")
          /\ worker' = AfterPlot(worker, "exception")
     ELSE IF proc[plotter.current_process] = "exit0"
     THEN /\ plotter' = [plotter EXCEPT !.jobs_completed = @ + 1]
          /\ worker' = [worker EXCEPT !.pc = "cb_get"]
     ELSE /\ plotter' = plot_svg_exit(plotter, "nonzero")
          /\ worker' = AfterPlot(worker, "nonzero")
  /\ UNCHANGED <<store, files, nextId, clock, proc, req, calls>>

\* wait_for(communicate(), timeout) has timed out: kill and wait.
WorkerTimeout ==
  /\ worker.pc = "communicate"
  /\ ~Exited(proc[worker.next_job])
  /\ IF plotter.current_process = NoJob
     THEN /\ plotter' = plot_svg_exit(plotter, "timeout")
          /\ worker' = AfterPlot(worker, "timeout")
          /\ UNCHANGED proc
     ELSE /\ proc' = [proc EXCEPT ![plotter.current_process] = kill(@)]
          /\ worker' = [worker EXCEPT !.pc = "kill_wait"]
          /\ UNCHANGED plotter
  /\ UNCHANGED <<store, files, nextId, clock, req, calls>>

\* The killed subprocess has been reaped: plot_svg returns False.
WorkerKillWait ==
  /\ worker.pc = "kill_wait"
  /\ Exited(proc[worker.next_job])
  /\ plotter' = plot_svg_exit(plotter, "timeout")
  /\ worker' = AfterPlot(worker, "timeout")
  /\ UNCHANGED <<store, files, nextId, clock, proc, req, calls>>

\* progress_callback(100): get_job of update_job_status(RUNNING, 100), in a
\* session of its own, has answered.
WorkerCbGet ==
  /\ worker.pc = "cb_get"
  /\ ~CancelReady
  /\ IF worker.next_job \notin DOMAIN store
     THEN /\ plotter' = plot_svg_exit(plotter, "success")
          /\ worker' = AfterPlot(worker, "success")
          /\ UNCHANGED clock
     ELSE /\ \E t \in IF store[worker.next_job].started_at = NoTime
                      THEN Nows ELSE {clock} :
               /\ clock' = t
               /\ worker' = [worker EXCEPT !.pc = "cb_commit",
                     !.upd = update_assign(store[worker.next_job], RUNNING, 100, KeepS, t)]
          /\ UNCHANGED plotter
  /\ UNCHANGED <<store, files, nextId, proc, req, calls>>

\* progress_callback(100): the commit has answered; plot_svg returns.
WorkerCbCommit ==
  /\ worker.pc = "cb_commit"
  /\ LET outcome == IF StaleRow(store, worker.next_job, worker.upd)
                    THEN "exception" ELSE "success"
     IN /\ store' = update_commit(store, worker.next_job, worker.upd)
        /\ plotter' = plot_svg_exit(plotter, outcome)
        /\ worker' = AfterPlot(worker, outcome)
  /\ UNCHANGED <<files, nextId, clock, proc, req, calls>>

\* The final update_job_status: get_job, in a new session, has answered.
WorkerFinalGet ==
  /\ worker.pc = "final_get"
  /\ ~CancelReady
  /\ IF worker.next_job \notin DOMAIN store
     THEN /\ worker' = LoopTop(worker, plotter)
          /\ UNCHANGED clock
     ELSE \E t \in Nows :
            /\ clock' = t
            /\ worker' = [worker EXCEPT !.pc = "final_commit",
                  !.upd = LET ok == Success(worker.outcome)
                          IN update_assign(store[worker.next_job], final_status(ok),
                                           final_progress(ok), final_error(ok), t)]
  /\ UNCHANGED <<store, files, nextId, plotter, proc, req, calls>>

\* The final update_job_status: the commit has answered.
WorkerFinalCommit ==
  /\ worker.pc = "final_commit"
  /\ IF StaleRow(store, worker.next_job, worker.upd)
     THEN /\ worker' = LoopExcept(worker)
          /\ UNCHANGED store
     ELSE /\ store' = update_commit(store, worker.next_job, worker.upd)
          /\ worker' = LoopTop(worker, plotter)
  /\ UNCHANGED <<files, nextId, clock, plotter, proc, req, calls>>

\* JobWorker.stop, called once at shutdown: the task is cancelled at the
\* await it is suspended at; inside plot_svg the finally block runs, the
\* subprocess is left as it is.
WorkerStop ==
  /\ worker.running
  /\ worker' = [worker EXCEPT !.running = FALSE, !.pc = "ended", !.upd = NoUpd,
                               !.next_job = NoJob, !.loaded = NoRec, !.outcome = "none"]
  /\ plotter' = IF worker.pc \in InPlotSvg THEN plot_svg_finally(plotter) ELSE plotter
  /\ UNCHANGED <<store, files, nextId, clock, proc, req, calls>>

\* The operating system: a running subprocess exits by itself (code 0 or
\* not), also after SIGTERM; a killed one is reaped with a non-zero code.
ProcExit(j) ==
  /\ proc[j] \in {"alive", "terminated", "killed"}
  /\ \E code \in IF proc[j] = "killed" THEN {"exit1"} ELSE {"exit0", "exit1"} :
       proc' = [proc EXCEPT ![j] = code]
  /\ UNCHANGED <<store, files, nextId, clock, plotter, worker, req, calls>>

\* ---------------------------------------------------------- HTTP requests
NoReq ==
  [kind |-> "none", pc |-> "idle", id |-> NoJob, loaded |-> NoRec, upd |-> NoUpd,
   wproc |-> NoJob, res |-> "none", position |-> 0]

\* The handler has answered: "ok" (200), "invalid" (400), "notfound" (404),
\* "full" (429), "failed" (the 500/501 the route raises itself),
\* "error" (an exception the route does not catch).
Respond(r, res) == [NoReq EXCEPT !.kind = r.kind, !.pc = "done", !.id = r.id, !.res = res]

\* The client has its answer; the handler is gone.
ReqReturn(c) ==
  /\ req[c].pc = "done"
  /\ req' = [req EXCEPT ![c] = NoReq]
  /\ UNCHANGED <<store, files, nextId, clock, plotter, proc, worker, calls>>

\* A request for job j arrives; its handler awaits get_job.
ReqBegin(c, kind, j) ==
  /\ req[c].pc = "idle"
  /\ req' = [req EXCEPT ![c] = [NoReq EXCEPT !.kind = kind, !.pc = "get", !.id = j]]
  /\ UNCHANGED <<store, files, nextId, clock, plotter, proc, worker, calls>>

\* -- plotter.cancel(), called by cancel_job and by cancel_current_job ------
\* cancel_job going on to its status write whatever cancel() returned.
CancelReturned_unchecked(r, ok) ==
  IF r.kind = "dev_cancel" THEN Respond(r, IF ok THEN "ok" ELSE "failed")
  ELSE [r EXCEPT !.pc = "upd_get", !.wproc = NoJob]

\* cancel() has returned `ok` to the route of request r.
CancelReturned(r, ok) ==
  IF ~ok THEN Respond(r, "failed")
  ELSE IF r.kind = "dev_cancel" THEN Respond(r, "ok")
  ELSE [r EXCEPT !.pc = "upd_get", !.wproc = NoJob]

\* cancel() from its call to its first await (lines 205-217): no active
\* process: False; else terminate() and wait for the process up to 5 s.
CancelCall(c, r) ==
  IF ~cancel_has_process(plotter, proc)
  THEN /\ req' = [req EXCEPT ![c] = CancelReturned(r, FALSE)]
       /\ UNCHANGED proc
  ELSE /\ proc' = [proc EXCEPT ![plotter.current_process] = terminate(@)]
       /\ req' = [req EXCEPT ![c] = [r EXCEPT !.pc = "term_wait",
                                              !.wproc = plotter.current_process]]

\* wait_for(process.wait(), 5) has answered: the process has exited.
CancelTermDone(c) ==
  /\ req[c].pc = "term_wait"
  /\ Exited(proc[req[c].wproc])
  /\ plotter' = cancel_reset(plotter)
  /\ req' = [req EXCEPT ![c] = CancelReturned(req[c], TRUE)]
  /\ UNCHANGED <<store, files, nextId, clock, proc, worker, calls>>

\* wait_for has timed out: kill the recorded process and wait for it; with
\* no process recorded any more the kill raises and cancel() returns False.
CancelTermTimeout(c) ==
  /\ req[c].pc = "term_wait"
  /\ ~Exited(proc[req[c].wproc])
  /\ IF plotter.current_process = NoJob
     THEN /\ req' = [req EXCEPT ![c] = CancelReturned(req[c], FALSE)]
          /\ UNCHANGED proc
     ELSE /\ proc' = [proc EXCEPT ![plotter.current_process] = kill(@)]
          /\ req' = [req EXCEPT ![c] = [req[c] EXCEPT !.pc = "kill_wait",
                                          !.wproc = plotter.current_process]]
  /\ UNCHANGED <<store, files, nextId, clock, plotter, worker, calls>>

\* The killed process has been reaped.
CancelKillDone(c) ==
  /\ req[c].pc = "kill_wait"
  /\ Exited(proc[req[c].wproc])
  /\ plotter' = cancel_reset(plotter)
  /\ req' = [req EXCEPT ![c] = CancelReturned(req[c], TRUE)]
  /\ UNCHANGED <<store, files, nextId, clock, proc, worker, calls>>

\* -- POST /jobs/{id}/cancel ------------------------------------------------
\* The route stopping the plotter whatever the status it has read.
cancel_needs_stop_always(status) == TRUE

\* The route's test `if job.status == RUNNING` before plotter.cancel().
cancel_needs_stop(status) == status = RUNNING

CancelBegin(c) == \E j \in 1..nextId : ReqBegin(c, "cancel", j)

\* get_job has answered: 404, 400 for a terminal job, plotter.cancel() for a
\* running one, else straight on to update_job_status(CANCELLED).
CancelGet(c) ==
  /\ req[c].kind = "cancel" /\ req[c].pc = "get"
  /\ LET job == get_job(store, req[c].id)
         r == [req[c] EXCEPT !.loaded = job]
     IN IF job = NoRec \/ job.status \in Terminal \/ ~cancel_needs_stop(job.status)
        THEN /\ req' = [req EXCEPT ![c] =
                         IF job = NoRec THEN Respond(r, "notfound")
                         ELSE IF job.status \in Terminal THEN Respond(r, "invalid")
                         ELSE [r EXCEPT !.pc = "upd_get"]]
             /\ UNCHANGED proc
        ELSE CancelCall(c, r)
  /\ UNCHANGED <<store, files, nextId, clock, plotter, worker, calls>>

\* update_job_status(CANCELLED): get_job has answered (same session: the
\* attributes are those the route loaded first).
CancelUpdGet(c) ==
  /\ req[c].pc = "upd_get"
  /\ IF req[c].id \notin DOMAIN store
     THEN /\ req' = [req EXCEPT ![c] = Respond(req[c], "ok")]
          /\ UNCHANGED clock
     ELSE \E t \in Nows :
            /\ clock' = t
            /\ req' = [req EXCEPT ![c] = [req[c] EXCEPT !.pc = "upd_commit",
                  !.upd = update_assign(req[c].loaded, CANCELLED, KeepN, KeepS, t)]]
  /\ UNCHANGED <<store, files, nextId, plotter, proc, worker, calls>>

\* update_job_status(CANCELLED): the commit has answered.
CancelUpdCommit(c) ==
  /\ req[c].pc = "upd_commit"
  /\ IF StaleRow(store, req[c].id, req[c].upd)
     THEN /\ req' = [req EXCEPT ![c] = Respond(req[c], "error")]
          /\ UNCHANGED store
     ELSE /\ store' = update_commit(store, req[c].id, req[c].upd)
          /\ req' = [req EXCEPT ![c] = Respond(req[c], "ok")]
  /\ UNCHANGED <<files, nextId, clock, plotter, proc, worker, calls>>

\* -- POST /plotter/cancel --------------------------------------------------
\* The whole handler up to cancel()'s first await.
DevCancel(c) ==
  /\ req[c].pc = "idle"
  /\ LET r == [NoReq EXCEPT !.kind = "dev_cancel"]
     IN IF plotter.state \notin {BUSY, PAUSED}
        THEN /\ req' = [req EXCEPT ![c] = Respond(r, "invalid")]
             /\ UNCHANGED proc
        ELSE CancelCall(c, r)
  /\ UNCHANGED <<store, files, nextId, clock, plotter, worker, calls>>

\* -- POST /plotter/pause, POST /plotter/resume ------------------------------
\* The whole handler: pause() has no await.
DevPause(c) ==
  /\ req[c].pc = "idle"
  /\ LET r == [NoReq EXCEPT !.kind = "pause"]
         got == pause(plotter)
     IN IF plotter.state /= BUSY
        THEN /\ req' = [req EXCEPT ![c] = Respond(r, "invalid")]
             /\ UNCHANGED plotter
        ELSE /\ req' = [req EXCEPT ![c] = Respond(r, IF got.ok THEN "ok" ELSE "failed")]
             /\ plotter' = got.plotter
  /\ UNCHANGED <<store, files, nextId, clock, proc, worker, calls>>

DevResume(c) ==
  /\ req[c].pc = "idle"
  /\ LET r == [NoReq EXCEPT !.kind = "resume"]
         got == resume(plotter)
     IN IF plotter.state /= PAUSED
        THEN /\ req' = [req EXCEPT ![c] = Respond(r, "invalid")]
             /\ UNCHANGED plotter
        ELSE /\ req' = [req EXCEPT ![c] = Respond(r, IF got.ok THEN "ok" ELSE "failed")]
             /\ plotter' = got.plotter
  /\ UNCHANGED <<store, files, nextId, clock, proc, worker, calls>>

\* -- DELETE /jobs/{id} -----------------------------------------------------
\* The route without its test.
delete_allowed_always(status) == TRUE

\* The route's test of the status it has read.
delete_allowed(status) == status /= RUNNING

DeleteBegin(c) == \E j \in 1..nextId : ReqBegin(c, "delete", j)

\* The route's get_job has answered.
DeleteGet(c) ==
  /\ req[c].kind = "delete" /\ req[c].pc = "get"
  /\ LET job == get_job(store, req[c].id)
         r == [req[c] EXCEPT !.loaded = job]
     IN req' = [req EXCEPT ![c] =
                  IF job = NoRec THEN Respond(r, "notfound")
                  ELSE IF ~delete_allowed(job.status) THEN Respond(r, "invalid")
                  ELSE [r EXCEPT !.pc = "del_get"]]
  /\ UNCHANGED <<store, files, nextId, clock, plotter, proc, worker, calls>>

\* queue_manager.delete_job: its get_job has answered; the file is unlinked.
DeleteUnlink(c) ==
  /\ req[c].pc = "del_get"
  /\ IF req[c].id \notin DOMAIN store
     THEN /\ req' = [req EXCEPT ![c] = Respond(req[c], "failed")]
          /\ UNCHANGED files
     ELSE /\ files' = files \ {req[c].id}
          /\ req' = [req EXCEPT ![c] = [req[c] EXCEPT !.pc = "del_commit"]]
  /\ UNCHANGED <<store, nextId, clock, plotter, proc, worker, calls>>

\* queue_manager.delete_job: the commit has answered.
DeleteCommit(c) ==
  /\ req[c].pc = "del_commit"
  /\ store' = delete_row(store, req[c].id)
  /\ req' = [req EXCEPT ![c] = Respond(req[c], "ok")]
  /\ UNCHANGED <<files, nextId, clock, plotter, proc, worker, calls>>

\* -- POST /jobs ------------------------------------------------------------
\* Submissions that have not yet drawn their job id.
Drawing == {c \in Clients : req[c].kind = "submit" /\ req[c].pc \in {"size", "write"}}

\* A submission arrives (the upload is read); the handler awaits get_queue_size.
SubmitBegin(c) ==
  /\ req[c].pc = "idle"
  /\ nextId + Cardinality(Drawing) < MaxJobs
  /\ req' = [req EXCEPT ![c] = [NoReq EXCEPT !.kind = "submit", !.pc = "size"]]
  /\ UNCHANGED <<store, files, nextId, clock, plotter, proc, worker, calls>>

\* get_queue_size has answered: 429 when full, else the file is written.
SubmitSize(c) ==
  /\ req[c].pc = "size"
  /\ req' = [req EXCEPT ![c] =
               IF get_queue_size(store) >= max_queue_size
               THEN Respond(req[c], "full")
               ELSE [req[c] EXCEPT !.pc = "write"]]
  /\ UNCHANGED <<store, files, nextId, clock, plotter, proc, worker, calls>>

\* The file is written; create_job builds the Job (id, created_at) and
\* awaits the commit.
SubmitWrite(c) ==
  /\ req[c].pc = "write"
  /\ \E t \in Nows :
       /\ clock' = t
       /\ req' = [req EXCEPT ![c] = [req[c] EXCEPT !.pc = "commit", !.id = nextId + 1,
                                                   !.loaded = Job(t)]]
  /\ nextId' = nextId + 1
  /\ files' = files \cup {nextId + 1}
  /\ UNCHANGED <<store, plotter, proc, worker, calls>>

\* create_job's commit has answered: the row exists.
SubmitCommit(c) ==
  /\ req[c].kind = "submit" /\ req[c].pc = "commit"
  /\ store' = [j \in DOMAIN store \cup {req[c].id} |->
                 IF j = req[c].id THEN req[c].loaded ELSE store[j]]
  /\ req' = [req EXCEPT ![c] = [req[c] EXCEPT !.pc = "position"]]
  /\ UNCHANGED <<files, nextId, clock, plotter, proc, worker, calls>>

\* get_queue_position has answered (the job object is the one create_job
\* built, its status as inserted).
SubmitPosition(c) ==
  /\ req[c].pc = "position"
  /\ LET job == IF req[c].id \in DOMAIN store THEN req[c].loaded ELSE NoRec
     IN req' = [req EXCEPT ![c] =
                  [Respond(req[c], "ok") EXCEPT !.position = get_queue_position(store, job)]]
  /\ UNCHANGED <<store, files, nextId, clock, plotter, proc, worker, calls>>

\* ------------------------------------------------------------ the service
Init ==
  /\ store = <<>>
  /\ files = {}
  /\ nextId = 0
  /\ clock = 1
  /\ plotter = [state |-> IDLE, current_job_id |-> NoJob, jobs_completed |-> 0,
                current_process |-> NoJob]
  /\ proc = [j \in JobIds |-> "none"]
  /\ worker = [running |-> FALSE, pc |-> "off", next_job |-> NoJob, loaded |-> NoRec,
               upd |-> NoUpd, outcome |-> "none"]
  /\ req = [c \in Clients |-> NoReq]
  /\ calls = <<>>

\* The worker task and the subprocesses it starts.
WorkerNext ==
  \/ WorkerStart
  \/ WorkerSleep
  \/ WorkerGetNext
  \/ WorkerMarkGet
  \/ WorkerMarkCommit
  \/ WorkerSpawn
  \/ WorkerSpawnError
  \/ WorkerCommunicate
  \/ WorkerTimeout
  \/ WorkerKillWait
  \/ WorkerCbGet
  \/ WorkerCbCommit
  \/ WorkerFinalGet
  \/ WorkerFinalCommit
  \/ WorkerStop
  \/ \E j \in JobIds : ProcExit(j)

SubmitNext(c) ==
  \/ SubmitBegin(c)
  \/ SubmitSize(c)
  \/ SubmitWrite(c)
  \/ SubmitCommit(c)
  \/ SubmitPosition(c)
  \/ ReqReturn(c)

ControlNext(c) ==
  \/ CancelBegin(c)
  \/ CancelGet(c)
  \/ CancelTermDone(c)
  \/ CancelTermTimeout(c)
  \/ CancelKillDone(c)
  \/ CancelUpdGet(c)
  \/ CancelUpdCommit(c)
  \/ DevCancel(c)
  \/ DevPause(c)
  \/ DevResume(c)
  \/ DeleteBegin(c)
  \/ DeleteGet(c)
  \/ DeleteUnlink(c)
  \/ DeleteCommit(c)

\* The service with the worker and one client request of any kind at a time.
Next ==
  \/ WorkerNext
  \/ \E c \in {"c1"} : SubmitNext(c) \/ ControlNext(c)

Spec == Init /\ [][Next]_vars

\* The service with the worker and concurrent submissions.
NextSubmit ==
  \/ WorkerNext
  \/ \E c \in Clients : SubmitNext(c)

SpecSubmit == Init /\ [][NextSubmit]_vars

\* -------------------------------------------- the queue manager by itself
\* The argument lists update_job_status is called with: (status, progress,
\* error), KeepN / KeepS for an argument left None.
UpdateArgs ==
  {<<RUNNING, KeepN, KeepS>>, <<RUNNING, 0, KeepS>>, <<RUNNING, 100, KeepS>>,
   <<COMPLETED, 100, KeepS>>, <<FAILED, KeepN, PlottingFailed>>,
   <<CANCELLED, KeepN, KeepS>>}

\* `calls` after update_job_status(id, a) at time t on a row of status pre:
\* a first call (Running, on a Queued job) opens a round trip, the call
\* (Completed, progress=100) on the same job right after it closes it, and
\* any other call leaves none in progress.
Called(id, a, t, pre) ==
  IF a[1] = RUNNING /\ pre = QUEUED
  THEN <<[id |-> id, status |-> RUNNING, at |-> t]>>
  ELSE IF a = <<COMPLETED, 100, KeepS>> /\ Len(calls) = 1 /\ calls[1].id = id
  THEN <<calls[1], [id |-> id, status |-> COMPLETED, at |-> t]>>
  ELSE <<>>

\* create_job, run to completion.
MgrCreate ==
  /\ nextId < MaxJobs
  /\ \E t \in Nows :
       /\ clock' = t
       /\ store' = [j \in DOMAIN store \cup {nextId + 1} |->
                      IF j = nextId + 1 THEN Job(t) ELSE store[j]]
  /\ nextId' = nextId + 1
  /\ files' = files \cup {nextId + 1}
  /\ calls' = <<>>
  /\ UNCHANGED <<plotter, proc, worker, req>>

\* update_job_status(id, status, progress, error), run to completion at time t.
MgrUpdate(id, a) ==
  /\ \E t \in Nows :
       /\ clock' = t
       /\ store' = update_commit(store, id,
                     update_assign(get_job(store, id), a[1], a[2], a[3], t))
       /\ calls' = Called(id, a, t, get_job(store, id).status)
  /\ UNCHANGED <<files, nextId, plotter, proc, worker, req>>

\* delete_job(id), run to completion.
MgrDelete(id) ==
  /\ id \in DOMAIN store
  /\ store' = delete_row(store, id)
  /\ files' = files \ {id}
  /\ calls' = <<>>
  /\ UNCHANGED <<nextId, clock, plotter, proc, worker, req>>

NextMgr ==
  \/ MgrCreate
  \/ \E id \in 1..nextId, a \in UpdateArgs : MgrUpdate(id, a)
  \/ \E id \in 1..nextId : MgrDelete(id)

SpecMgr == Init /\ [][NextMgr]_vars

\* ------------------------------------------- the worker with failing calls
\* A database call of the loop raises (connection lost, database locked):
\* nothing is written, the loop's `except Exception` takes over.
WorkerFault ==
  /\ worker.pc \in {"get_next", "mark_get", "mark_commit", "final_get", "final_commit"}
  /\ worker' = LoopExcept(worker)
  /\ UNCHANGED <<store, files, nextId, clock, plotter, proc, req, calls>>

\* The job is marked running and json.loads(next_job.parameters) raises.
WorkerParseFault ==
  /\ worker.pc = "mark_commit"
  /\ ~StaleRow(store, worker.next_job, worker.upd)
  /\ store' = update_commit(store, worker.next_job, worker.upd)
  /\ worker' = LoopExcept(worker)
  /\ UNCHANGED <<files, nextId, clock, plotter, proc, req, calls>>

\* A database call of progress_callback raises: plot_svg's `except Exception`
\* takes over and plot_svg returns False.
WorkerCbFault ==
  /\ worker.pc \in {"cb_get", "cb_commit"}
  /\ plotter' = plot_svg_exit(plotter, "exception")
  /\ worker' = AfterPlot(worker, "exception")
  /\ UNCHANGED <<store, files, nextId, clock, proc, req, calls>>

\* One step of the running loop, of plot_svg or of a subprocess.
WorkerStep ==
  \/ WorkerSleep
  \/ WorkerGetNext
  \/ WorkerMarkGet
  \/ WorkerMarkCommit
  \/ WorkerSpawn
  \/ WorkerSpawnError
  \/ WorkerCommunicate
  \/ WorkerTimeout
  \/ WorkerKillWait
  \/ WorkerCbGet
  \/ WorkerCbCommit
  \/ WorkerFinalGet
  \/ WorkerFinalCommit
  \/ \E j \in JobIds : ProcExit(j)

NextFault ==
  \/ WorkerNext
  \/ WorkerFault
  \/ WorkerParseFault
  \/ WorkerCbFault
  \/ SubmitNext("c1")
  \/ DeleteBegin("c1")
  \/ DeleteGet("c1")
  \/ DeleteUnlink("c1")
  \/ DeleteCommit("c1")

\* The event loop runs every task that can run; sleeps, waits with a timeout
\* and killed subprocesses end; a call that fails does not fail for ever.
SpecFault ==
  /\ Init /\ [][NextFault]_vars
  /\ WF_vars(WorkerStep \/ WorkerFault \/ WorkerParseFault \/ WorkerCbFault)
  /\ SF_vars(WorkerGetNext)
  /\ SF_vars(WorkerMarkGet)
  /\ SF_vars(WorkerMarkCommit)

\* The service of Spec on an event loop that runs every task that can run:
\* the worker is started, its awaits are answered, sleeps and waits with a
\* timeout end, subprocesses that were signalled or left alone exit, and a
\* cancel() whose subprocess has exited goes on.
SpecLive ==
  /\ Init /\ [][Next]_vars
  /\ WF_vars(WorkerStart \/ WorkerStep)
  /\ WF_vars(\E c \in Clients : CancelTermDone(c) \/ CancelKillDone(c))

\* ---------------------------------------- the device controller by itself
\* plot_svg(job j) called directly, at any moment at which the controller is
\* not idle, or with no other call in progress.  `worker` holds the position
\* of the call that was accepted, req["c2"] what the caller last got: "error"
\* for the RuntimeError of line 109, "none" for a call that has gone on.
CtlPlot(j) ==
  /\ req["c2"].pc = "idle"
  /\ plotter.jobs_completed < MaxJobs
  /\ worker.pc = "off" \/ plotter.state /= IDLE
  /\ LET r == [NoReq EXCEPT !.kind = "plot", !.id = j]
     IN IF plot_svg_accepts(plotter)
        THEN /\ plotter' = [plotter EXCEPT !.state = BUSY, !.current_job_id = j]
             /\ worker' = [worker EXCEPT !.pc = "spawn", !.next_job = j,
                                          !.outcome = "none"]
             /\ req' = [req EXCEPT !["c2"] = Respond(r, "none")]
        ELSE /\ req' = [req EXCEPT !["c2"] = Respond(r, "error")]
             /\ UNCHANGED <<plotter, worker>>
  /\ UNCHANGED <<store, files, nextId, clock, proc, calls>>

\* plot_svg has returned to its caller.
CtlReturn ==
  /\ worker.pc = "final_get"
  /\ worker' = [worker EXCEPT !.pc = "off", !.next_job = NoJob, !.outcome = "none"]
  /\ UNCHANGED <<store, files, nextId, clock, plotter, proc, req, calls>>

NextCtl ==
  \/ \E j \in JobIds : CtlPlot(j)
  \/ CtlReturn
  \/ WorkerSpawn
  \/ WorkerSpawnError
  \/ WorkerCommunicate
  \/ WorkerTimeout
  \/ WorkerKillWait
  \/ WorkerCbGet
  \/ \E j \in JobIds : ProcExit(j)
  \/ DevCancel("c1")
  \/ CancelTermDone("c1")
  \/ CancelTermTimeout("c1")
  \/ CancelKillDone("c1")
  \/ DevPause("c1")
  \/ DevResume("c1")
  \/ \E c \in Clients : ReqReturn(c)

SpecCtl == Init /\ [][NextCtl]_vars

\* ------------------------------------------------------------------ claims
RunningIds == {j \in DOMAIN store : store[j].status = RUNNING}

\* C1: whenever the worker is not inside plot_svg - so after every return of
\* plot_svg, on success, non-zero exit, timeout, spawn error or any other
\* exception, and after its cancellation - the controller is idle, with no
\* current job and no recorded subprocess.
C1_IdleAfterPlot ==
  worker.pc \notin InPlotSvg =>
    /\ plotter.state = IDLE
    /\ plotter.current_job_id = NoJob
    /\ plotter.current_process = NoJob

\* plot_svg has returned False after a timeout and the worker has not yet
\* written the job's final status.
C1_Witness ==
  /\ worker.pc = "final_get"
  /\ worker.outcome = "timeout"
  /\ plotter.state = IDLE

C3_NextIsOldestQueued ==
  /\ get_next_job(store) /= {}
  /\ \A j \in get_next_job(store) :
       IF \A k \in DOMAIN store : store[k].status /= QUEUED
       THEN j = NoJob
       ELSE /\ j \in DOMAIN store
            /\ store[j].status = QUEUED
            /\ \A k \in DOMAIN store :
                 store[k].status = QUEUED => store[j].created_at <= store[k].created_at

\* The older of two jobs has been updated to running: the younger, queued
\* one is the only answer.
C3_Witness ==
  \E j, k \in DOMAIN store :
    /\ store[j].status = RUNNING /\ store[k].status = QUEUED
    /\ store[j].created_at < store[k].created_at
    /\ get_next_job(store) = {k}

\* C4 (as claimed): when the worker marks a job running, no job created
\* strictly before it is still queued, and no other job is running.
C4_DispatchInCreatedOrder ==
  [][(/\ worker.pc = "mark_commit"
      /\ worker.next_job \in DOMAIN store'
      /\ store[worker.next_job].status /= RUNNING
      /\ store'[worker.next_job].status = RUNNING)
     => \A a \in DOMAIN store \ {worker.next_job} :
          /\ store[a].status /= RUNNING
          /\ ~(/\ store[a].status = QUEUED
               /\ store[a].created_at < store[worker.next_job].created_at)]_vars

\* C5: the position is 0 for a job that does not exist or is not queued, and
\* for a queued job the number of queued jobs created at or before it; 1 for
\* the only queued job.
C5_QueuePosition ==
  \A id \in JobIds :
    LET p == get_queue_position(store, get_job(store, id))
    IN IF id \notin DOMAIN store \/ store[id].status /= QUEUED
       THEN p = 0
       ELSE /\ p = 1 + Cardinality({k \in DOMAIN store \ {id} :
                         /\ store[k].status = QUEUED
                         /\ ~(store[k].created_at > store[id].created_at)})
            /\ (\A k \in DOMAIN store \ {id} : store[k].status /= QUEUED) => p = 1

\* Job B is queued behind the only older job A, which is running: position 1.
C5_Witness ==
  \E a, b \in DOMAIN store :
    /\ store[a].status = RUNNING /\ store[b].status = QUEUED
    /\ store[a].created_at < store[b].created_at
    /\ get_queue_position(store, store[b]) = 1

\* C6: the delete route, reading a job as running, answers 400 and leaves
\* the table and the files as they are.
C6_DeleteRunningRejected ==
  [][\A c \in Clients :
       (/\ req[c].kind = "delete" /\ req[c].pc = "get"
        /\ req'[c] /= req[c]
        /\ req[c].id \in DOMAIN store
        /\ store[req[c].id].status = RUNNING)
       => /\ req'[c].pc = "done" /\ req'[c].res = "invalid"
          /\ store' = store
          /\ files' = files]_vars

\* A delete of a running job has been answered 400; row and file are there.
C6_Witness ==
  \E c \in Clients :
    /\ req[c].kind = "delete" /\ req[c].pc = "done" /\ req[c].res = "invalid"
    /\ req[c].id \in RunningIds
    /\ req[c].id \in files

\* Client c's handler calls plotter.cancel() in this step.
CancelCalled(c) ==
  \/ /\ req[c].kind = "cancel" /\ req[c].pc = "get"
     /\ req'[c] /= req[c]
     /\ get_job(store, req[c].id).status = RUNNING
  \/ /\ req[c].pc = "idle"
     /\ req'[c].kind = "dev_cancel"
     /\ plotter.state \in {BUSY, PAUSED}

\* C7: cancel() called with no subprocess recorded, or with the recorded one
\* exited, returns False (the route answers its failure) and leaves the
\* controller and the subprocesses as they are.
C7_CancelWithoutProcess ==
  [][\A c \in Clients :
       (/\ CancelCalled(c)
        /\ \/ plotter.current_process = NoJob
           \/ proc[plotter.current_process] \in {"exit0", "exit1"})
       => /\ req'[c].pc = "done" /\ req'[c].res = "failed"
          /\ plotter' = plotter
          /\ proc' = proc]_vars

\* cancel() has failed for a busy controller whose subprocess has exited
\* but is still recorded.
C7_Witness ==
  \E c \in Clients :
    /\ req[c].kind \in {"cancel", "dev_cancel"}
    /\ req[c].pc = "done" /\ req[c].res = "failed"
    /\ plotter.state = BUSY
    /\ plotter.current_process /= NoJob
    /\ proc[plotter.current_process] \in {"exit0", "exit1"}

\* C8: update_job_status(id, RUNNING) on a queued job, followed at once by
\* update_job_status(id, COMPLETED, progress=100), leaves the job completed
\* with progress 100, started_at the time of the first call and completed_at
\* the time of the second.
C8_RoundTrip ==
  Len(calls) = 2 =>
    LET job == get_job(store, calls[1].id)
    IN /\ job.status = COMPLETED
       /\ job.progress = 100
       /\ job.started_at = calls[1].at
       /\ job.completed_at = calls[2].at

\* A round trip whose second call came later than its first.
C8_Witness ==
  /\ Len(calls) = 2
  /\ calls[1].at < calls[2].at

\* C9 (as claimed): the final status the worker writes for a job whose plot
\* timed out is failed, with an error text other than the one it writes for
\* a plot that exited non-zero.
C9_TimeoutDiagnosed ==
  [][(/\ worker.pc = "final_commit"
      /\ worker.outcome = "timeout"
      /\ worker.next_job \in DOMAIN store
      /\ worker'.pc /= "final_commit")
     => /\ plotter.state = IDLE
        /\ store'[worker.next_job].status = FAILED
        /\ store'[worker.next_job].error /= final_error(Success("nonzero"))]_vars

\* C10 (as claimed): a job that is completed, failed or cancelled keeps its
\* status, progress, error and completed_at for as long as its row exists.
C10_TerminalImmutable ==
  [][\A j \in DOMAIN store :
       (store[j].status \in Terminal /\ j \in DOMAIN store')
       => /\ store'[j].status = store[j].status
          /\ store'[j].progress = store[j].progress
          /\ store'[j].error = store[j].error
          /\ store'[j].completed_at = store[j].completed_at]_vars

\* C11 (as claimed): update_job_status called on a job whose status is
\* completed, failed or cancelled, with whatever arguments and at whatever
\* time, leaves the table as it is.
C11_TerminalUpdateRejected ==
  \A id \in DOMAIN store : \A a \in UpdateArgs : \A t \in Nows :
    store[id].status \in Terminal =>
      update_commit(store, id, update_assign(get_job(store, id), a[1], a[2], a[3], t))
        = store

\* C12: a cancel request that read its job as running goes on to
\* update_job_status(CANCELLED) only from cancel()'s wait on a subprocess
\* that has exited (cancel() returns True); no step of the request before
\* the commit of that update changes the table, so a request that answers
\* failure has left the job as it was.
C12_CancelAfterStop ==
  [][\A c \in Clients :
       (req[c].kind = "cancel" /\ req'[c] /= req[c]) =>
         /\ (/\ req'[c].pc = "upd_get" /\ req[c].pc /= "upd_get"
             /\ req'[c].loaded.status = RUNNING)
            => /\ req[c].pc \in {"term_wait", "kill_wait"}
               /\ Exited(proc[req[c].wproc])
         /\ (/\ req[c].pc = "get"
             /\ get_job(store, req[c].id).status = RUNNING
             /\ ~cancel_has_process(plotter, proc))
            => req'[c].pc = "done" /\ req'[c].res = "failed"
         /\ store' /= store => req[c].pc = "upd_commit" /\ req'[c].res /= "failed"]_vars

\* cancel() has stopped the subprocess of a running job and the request is
\* about to commit status cancelled.
C12_Witness ==
  \E c \in Clients :
    /\ req[c].kind = "cancel" /\ req[c].pc = "upd_commit"
    /\ req[c].loaded.status = RUNNING
    /\ req[c].upd.status = CANCELLED
    /\ Exited(proc[req[c].id])

\* The subprocess of job j runs.
Live(j) == proc[j] \in {"alive", "terminated", "killed"}

\* C13 (as claimed): when a cancel of job J has answered success, J's
\* subprocess is not running and the worker is not on its way to start it.
C13_CancelledNotPlotted ==
  \A c \in Clients :
    (req[c].kind = "cancel" /\ req[c].pc = "done" /\ req[c].res = "ok") =>
      /\ ~Live(req[c].id)
      /\ ~(/\ worker.next_job = req[c].id
           /\ worker.pc \in {"mark_get", "mark_commit", "spawn"})

\* C14 (as claimed): no step removes the row or the input file of a job that
\* has status running or that the controller is plotting.
C14_RunningNotDeleted ==
  [][\A j \in JobIds :
       (\/ j \in DOMAIN store /\ store[j].status = RUNNING
        \/ plotter.current_job_id = j)
       => /\ j \in DOMAIN store => j \in DOMAIN store'
          /\ j \in files => j \in files']_vars

\* C15 (as claimed): the timeout path of plot_svg sends SIGKILL only to a
\* subprocess that has been sent SIGTERM before, as cancel() does.
C15_TimeoutTwoPhase ==
  [][(/\ worker.pc = "communicate"
      /\ worker'.pc = "kill_wait")
     => /\ proc[worker.next_job] = "terminated"
        /\ proc'[worker.next_job] = "killed"]_vars

\* C16: the controller is never paused, no job has status paused and no
\* pause or resume request answers success; and a pause or resume request
\* changes neither the controller nor the table, the files or the
\* subprocesses, and answers 400 or 501.
C16_PauseUnimplemented ==
  /\ [](/\ plotter.state /= PAUSED
        /\ \A j \in DOMAIN store : store[j].status /= PAUSED
        /\ \A c \in Clients : req[c].kind \in {"pause", "resume"} => req[c].res /= "ok")
  /\ [][\A c \in Clients :
          (req[c].pc = "idle" /\ req'[c].kind \in {"pause", "resume"})
          => /\ req'[c].pc = "done" /\ req'[c].res \in {"invalid", "failed"}
             /\ plotter' = plotter
             /\ store' = store /\ files' = files /\ proc' = proc]_vars

\* A pause request on a busy controller, with the subprocess running, has
\* been answered 501.
C16_Witness ==
  \E c \in Clients :
    /\ req[c].kind = "pause" /\ req[c].pc = "done" /\ req[c].res = "failed"
    /\ plotter.state = BUSY
    /\ plotter.current_process /= NoJob
    /\ proc[plotter.current_process] = "alive"

\* C17: plot_svg called on a controller that is not idle raises at once and
\* leaves the controller, the subprocesses and the call in progress as they
\* are.
C17_BusyRejected ==
  [][(/\ req["c2"].pc = "idle"
      /\ req'["c2"].kind = "plot"
      /\ plotter.state /= IDLE)
     => /\ req'["c2"].res = "error"
        /\ plotter' = plotter
        /\ proc' = proc
        /\ worker' = worker]_vars

\* plot_svg for another job has raised while the subprocess of the job in
\* progress runs.
C17_Witness ==
  /\ req["c2"].kind = "plot" /\ req["c2"].res = "error"
  /\ plotter.state = BUSY
  /\ plotter.current_job_id /= req["c2"].id
  /\ plotter.current_process /= NoJob
  /\ proc[plotter.current_process] = "alive"

\* C18: while the worker has been started and not stopped, a queued job does
\* not stay queued for ever, whatever calls of the loop have raised.
C18_LoopSurvives ==
  \A j \in JobIds :
    (worker.running /\ j \in QueuedIds(store))
      ~> (~worker.running \/ j \notin QueuedIds(store))

\* An exception has sent the loop to its sleep while a job marked running is
\* left behind and another job is queued.
C18_Witness ==
  /\ worker.running /\ worker.pc = "sleep"
  /\ plotter.state = IDLE
  /\ RunningIds /= {}
  /\ QueuedIds(store) /= {}

\* C19 (as claimed): stopping the worker while the subprocess of its job
\* runs and the controller is busy with that job leaves the job's row, the
\* subprocess and the controller as they are: still busy, with that job's id.
C19_StopKeepsBusy ==
  [][(/\ worker.running /\ ~worker'.running
      /\ worker.pc \in InPlotSvg
      /\ Live(worker.next_job)
      /\ plotter.state = BUSY
      /\ plotter.current_job_id = worker.next_job)
     => /\ store' = store
        /\ proc' = proc
        /\ plotter'.state = BUSY
        /\ plotter'.current_job_id = worker.next_job]_vars

\* C20: a step that sets a job's status to running is a step of the worker,
\* for the job get_next_job gave it: either the commit of
\* update_job_status(RUNNING, progress=0), of a job loaded as queued and
\* with the controller idle, or the commit of its progress callback.  No
\* step of a request does it.
C20_OnlyWorkerMarksRunning ==
  [][\A j \in JobIds :
       (/\ j \in DOMAIN store' /\ store'[j].status = RUNNING
        /\ ~(j \in DOMAIN store /\ store[j].status = RUNNING))
       => /\ req' = req
          /\ j \in DOMAIN store
          /\ worker.next_job = j
          /\ \/ /\ worker.pc = "mark_commit"
                /\ worker.loaded.status = QUEUED
                /\ plotter.state = IDLE
             \/ worker.pc = "cb_commit"]_vars

\* The worker has marked its job running while a cancel request for that
\* job is under way.
C20_Witness ==
  /\ worker.pc = "spawn"
  /\ worker.next_job \in RunningIds
  /\ \E c \in Clients : req[c].kind = "cancel" /\ req[c].id = worker.next_job

\* C21 (as claimed): no step changes a started_at or a completed_at that is
\* set; started_at is set only by a step that leaves the job running, and
\* completed_at only by a step that leaves it completed, failed or cancelled.
C21_StampedOnce ==
  [][\A j \in DOMAIN store \cap DOMAIN store' :
       /\ store[j].started_at /= NoTime => store'[j].started_at = store[j].started_at
       /\ store[j].completed_at /= NoTime
            => store'[j].completed_at = store[j].completed_at
       /\ store'[j].started_at /= store[j].started_at => store'[j].status = RUNNING
       /\ store'[j].completed_at /= store[j].completed_at
            => store'[j].status \in Terminal]_vars

\* C22 (as claimed): the positions of the n queued jobs are 1..n, each taken
\* by one job, and every job get_next_job may return has position 1.
C22_PositionsAreRanks ==
  LET pos(j) == get_queue_position(store, get_job(store, j))
  IN /\ {pos(j) : j \in QueuedIds(store)} = 1..Cardinality(QueuedIds(store))
     /\ \A j, k \in QueuedIds(store) : j /= k => pos(j) /= pos(k)
     /\ \A j \in get_next_job(store) : j /= NoJob => pos(j) = 1

\* C23: the controller has a current job exactly when it is
\* busy or paused, and the reset at the end of a request's cancel() finds
\* the controller with no current job or with the job whose subprocess the
\* cancel() waited for.
C23_CurrentJobIffBusy ==
  /\ [](plotter.current_job_id /= NoJob <=> plotter.state \in {BUSY, PAUSED})
  /\ [][\A c \in Clients :
          (/\ req[c].pc \in {"term_wait", "kill_wait"}
           /\ req'[c].pc \notin {"term_wait", "kill_wait"}
           /\ plotter' /= plotter)
          => plotter.current_job_id \in {NoJob, req[c].wproc}]_vars

\* A cancel() is still waiting for a subprocess that has exited while
\* plot_svg has already returned for it and reset the controller.
C23_Witness ==
  /\ \E c \in Clients :
       /\ req[c].pc \in {"term_wait", "kill_wait"}
       /\ Exited(proc[req[c].wproc])
  /\ worker.pc = "final_get"
  /\ plotter.state = IDLE /\ plotter.current_job_id = NoJob

\* C24 (as claimed): a job with an error text has status failed.
C24_ErrorOnlyOnFailed ==
  \A j \in DOMAIN store : store[j].error /= NoText => store[j].status = FAILED

\* C25: cancel() with an active subprocess sends it SIGTERM and waits; it
\* sends SIGKILL only from that wait, to a subprocess that has not exited;
\* and it returns True only from a wait on a subprocess that has exited,
\* leaving the controller idle with no current job and no subprocess.
C25_CancelTwoPhase ==
  [][\A c \in Clients :
       (req[c].kind \in {"cancel", "dev_cancel"} /\ req'[c] /= req[c]) =>
         /\ (req[c].pc \in {"idle", "get"} /\ req'[c].pc = "term_wait")
            => /\ ~Exited(proc[req'[c].wproc])
               /\ proc[req'[c].wproc] = "alive" => proc'[req'[c].wproc] = "terminated"
               /\ plotter' = plotter
         /\ (req[c].pc \in {"idle", "get"} /\ req'[c].pc /= "term_wait")
            => proc' = proc
         /\ (req[c].pc = "term_wait" /\ req'[c].pc = "kill_wait")
            => /\ proc[req[c].wproc] \in {"terminated", "killed"}
               /\ proc'[req'[c].wproc] = "killed"
         /\ (/\ req[c].pc \in {"term_wait", "kill_wait"}
             /\ \/ req'[c].pc = "upd_get"
                \/ req'[c].pc = "done" /\ req'[c].res = "ok")
            => /\ Exited(proc[req[c].wproc])
               /\ proc' = proc
               /\ plotter'.state = IDLE
               /\ plotter'.current_job_id = NoJob
               /\ plotter'.current_process = NoJob]_vars

\* cancel() has killed a subprocess that outlived the grace period, and
\* waits for it.
C25_Witness ==
  \E c \in Clients :
    /\ req[c].kind \in {"cancel", "dev_cancel"}
    /\ req[c].pc = "kill_wait"
    /\ proc[req[c].wproc] = "killed"
    /\ plotter.state = BUSY

\* C26 (as claimed): at most one subprocess runs, and while one runs the
\* controller is busy with its job.
C26_OneLiveProcess ==
  /\ Cardinality({j \in JobIds : Live(j)}) <= 1
  /\ \A j \in JobIds :
       Live(j) => plotter.state = BUSY /\ plotter.current_job_id = j

\* C28 (as claimed): the job a busy controller plots has a row, with status
\* running.
C28_BusyJobIsRunning ==
  (plotter.state = BUSY /\ plotter.current_job_id /= NoJob) =>
    /\ plotter.current_job_id \in DOMAIN store
    /\ store[plotter.current_job_id].status = RUNNING

\* C30 (as claimed): the number of queued jobs never exceeds the configured
\* maximum queue size, however concurrent submit requests interleave.
C30_QueueBounded ==
  Cardinality(QueuedIds(store)) <= max_queue_size

====
